---- MODULE Spec2Model ----
(***************************************************************************)
(* Model of src/running.py: the conversion workflow of main() and the      *)
(* scaffolding materializer LegacyConverter.create_scaffolding_structure.  *)
(* One session is one invocation of main(); pc is its position in main().  *)
(***************************************************************************)
EXTENDS Integers, Sequences, FiniteSets, TLC

\* ------------------------------------------------------------------------
\* Bounds
\* ------------------------------------------------------------------------
\* longest scaffolding list drawn as a payload
MaxItems == 2

\* ------------------------------------------------------------------------
\* Sessions and their inputs
\* ------------------------------------------------------------------------
Sessions == {1, 2}

NoId == "None"
GivenId == "P-given"
ImportedId == "P-imported"

\* ------------------------------------------------------------------------
\* Exceptions (by Python class; HTTPError carries its status)
\* ------------------------------------------------------------------------
NoError == "none"

\* subclasses of requests.RequestException raised by session.request /
\* requests.get / raise_for_status
RequestExceptions == {"HTTPError404", "HTTPError401", "HTTPError500", "ConnectionError"}

IsRequestException(e) == e \in RequestExceptions

\* ------------------------------------------------------------------------
\* JSON values and texts
\* A value is [t, v]; a text is what a str holds or what a response body is:
\* either the encoding of a value or characters that are no JSON document.
\* ------------------------------------------------------------------------
JList(m) == [t |-> "list", v |-> m]
JNum == [t |-> "num", v |-> <<>>]
JObj(pairs) == [t |-> "obj", v |-> pairs]
JStr(text) == [t |-> "str", v |-> <<text>>]
Pair(k, val) == [k |-> k, val |-> val]

InvalidText == [valid |-> FALSE, enc |-> <<>>]
Enc(val) == [valid |-> TRUE, enc |-> <<val>>]

\* json.loads(text): the value a text encodes, or JSONDecodeError
json_loads(text) ==
  IF text.valid THEN [err |-> NoError, val |-> text.enc[1]]
  ELSE [err |-> "JSONDecodeError", val |-> JNum]

isinstance_list(d) == d.t = "list"
isinstance_str(d) == d.t = "str"

\* ------------------------------------------------------------------------
\* Scaffolding items
\* ------------------------------------------------------------------------
DirItem(p) == [full_path |-> p, type |-> "directory"]
FileItem(p, d, e) == [full_path |-> p, type |-> "file", description |-> d, expected_content |-> e]

Items ==
  { DirItem(<<"src">>),
    FileItem(<<"src", "main.py">>, "entry point", "python"),
    FileItem(<<"README">>, "readme", "text"),
    FileItem(<<"src">>, "clash", "text"),
    [full_path |-> <<"notes">>, type |-> "file", expected_content |-> "text"],
    FileItem(<<"..", "etc">>, "escape", "text") }

RECURSIVE SeqsUpTo(_, _)
SeqsUpTo(S, n) ==
  IF n = 0 THEN {<<>>}
  ELSE LET shorter == SeqsUpTo(S, n - 1)
       IN shorter \cup {Append(q, x) : q \in {r \in shorter : Len(r) = n - 1}, x \in S}

Manifests == SeqsUpTo(Items, MaxItems)

\* ------------------------------------------------------------------------
\* Filesystem: a function from the absolute paths that exist to their node.
\* Paths are sequences of segments; <<>> is "/" and Cwd the working directory.
\* ------------------------------------------------------------------------
Cwd == <<"work">>

DirNode == [kind |-> "dir", content |-> <<>>]
FileNode(c) == [kind |-> "file", content |-> c]

IsPrefix(p, q) == Len(p) <= Len(q) /\ SubSeq(q, 1, Len(p)) = p

Parent(p) == IF p = <<>> THEN <<>> ELSE SubSeq(p, 1, Len(p) - 1)

IsDir(f, p) == p \in DOMAIN f /\ f[p].kind = "dir"

BadPath == <<"?">>

\* kernel path resolution of a path relative to Cwd: every component walked
\* through must be an existing directory; ".." steps to the parent. The result
\* is the absolute path named (which may not exist), or BadPath.
RECURSIVE Walk(_, _, _)
Walk(f, cur, rest) ==
  IF rest = <<>> THEN cur
  ELSE IF ~IsDir(f, cur) THEN BadPath
  ELSE IF Head(rest) = ".." THEN Walk(f, Parent(cur), Tail(rest))
  ELSE Walk(f, Append(cur, Head(rest)), Tail(rest))

Resolve(f, raw) == Walk(f, Cwd, raw)

\* os.path.exists
path_exists(f, raw) == Resolve(f, raw) # BadPath /\ Resolve(f, raw) \in DOMAIN f

\* os.path.join(a, b): an absolute second component discards the first
path_join(a, b) == IF b # <<>> /\ b[1] = "/" THEN b ELSE a \o b

\* os.path.dirname
path_dirname(raw) == IF raw = <<>> THEN <<>> ELSE SubSeq(raw, 1, Len(raw) - 1)

\* the paths whose node differs between two filesystems
Changed(f, g) ==
  {p \in (DOMAIN f) \cup (DOMAIN g) :
     \/ p \notin DOMAIN f
     \/ p \notin DOMAIN g
     \/ f[p] # g[p]}

Remove(f, gone) == [p \in (DOMAIN f) \ gone |-> f[p]]

\* rmtree that removes the directory entry only, not what is below it
rmtree_top_only(f, raw) ==
  LET p == Resolve(f, raw)
  IN IF p = BadPath \/ ~IsDir(f, p) THEN [err |-> "OSError", fs |-> f]
     ELSE [err |-> NoError, fs |-> Remove(f, {p})]

\* shutil.rmtree(raw): removes the directory and everything below it; a path
\* that is not a directory raises NotADirectoryError and removes nothing
rmtree(f, raw) ==
  LET p == Resolve(f, raw)
  IN IF p = BadPath \/ ~IsDir(f, p) THEN [err |-> "OSError", fs |-> f]
     ELSE [err |-> NoError, fs |-> Remove(f, {q \in DOMAIN f : IsPrefix(p, q)})]

\* os.mkdir(raw)
mkdir(f, raw) ==
  LET p == Resolve(f, raw)
  IN IF p = BadPath THEN [err |-> "OSError", fs |-> f]
     ELSE IF p \in DOMAIN f THEN [err |-> "FileExistsError", fs |-> f]
     ELSE [err |-> NoError, fs |-> (p :> DirNode) @@ f]

\* os.makedirs(raw, exist_ok): creates the missing leading directories first,
\* then the leaf; an existing leaf is an error unless exist_ok and it is a
\* directory. What was created before an error stays.
RECURSIVE makedirs(_, _, _)
makedirs(f, raw, exist_ok) ==
  LET head == path_dirname(raw)
      up == IF head # <<>> /\ ~path_exists(f, head)
            THEN makedirs(f, head, exist_ok)
            ELSE [err |-> NoError, fs |-> f]
      upErr == IF up.err = "FileExistsError" THEN NoError ELSE up.err
      leaf == mkdir(up.fs, raw)
  IN IF upErr # NoError THEN [err |-> upErr, fs |-> up.fs]
     ELSE IF leaf.err = NoError THEN leaf
     ELSE IF exist_ok /\ path_exists(up.fs, raw) /\ IsDir(up.fs, Resolve(up.fs, raw))
          THEN [err |-> NoError, fs |-> up.fs]
     ELSE [err |-> "OSError", fs |-> up.fs]

\* open(raw, "w"): creates or truncates a regular file
open_w(f, raw) ==
  LET p == Resolve(f, raw)
  IN IF p = BadPath \/ IsDir(f, p) THEN [err |-> "OSError", fs |-> f]
     ELSE [err |-> NoError, fs |-> (p :> FileNode(<<>>)) @@ f]

\* f.write(line) on the file opened at raw
write_line(f, raw, line) ==
  LET p == Resolve(f, raw)
  IN (p :> FileNode(Append(f[p].content, line))) @@ f

\* ------------------------------------------------------------------------
\* Remote service responses and payloads (inputs of the steps)
\* ------------------------------------------------------------------------
\* "ok": 200 with the expected keys; "nokey": 200 whose JSON lacks the key
\* main() indexes; otherwise the RequestException the call raises
GsResponses == {"ok", "nokey"} \cup RequestExceptions
AckResponses == {"ok"} \cup RequestExceptions
ImportResponses == {"ok", "nokey", "unreadable"} \cup RequestExceptions
FetchResponses == {"ok"} \cup RequestExceptions

\* the shapes a list of items arrives in
ListBodies ==
  UNION { { Enc(JList(m)),
            Enc(JStr(Enc(JList(m)))),
            Enc(JObj(<<Pair("items", JList(m))>>)),
            Enc(JObj(<<Pair("count", JNum), Pair("items", JList(m))>>)),
            Enc(JStr(Enc(JObj(<<Pair("items", JList(m))>>)))) } : m \in Manifests }

\* payloads that hold no list of items
BadBodies ==
  { InvalidText,
    Enc(JNum),
    Enc(JObj(<<>>)),
    Enc(JObj(<<Pair("count", JNum)>>)),
    Enc(JStr(InvalidText)),
    Enc(JStr(Enc(JNum))),
    Enc(JStr(Enc(JStr(InvalidText)))) }

\* mappings in which two keys hold a list
ShortLists == SeqsUpTo(Items, 1)

TwoListBodies ==
  UNION { { Enc(JObj(<<Pair("a", JList(m1)), Pair("b", JList(m2))>>)),
            Enc(JObj(<<Pair("count", JNum), Pair("a", JList(m1)), Pair("b", JList(m2))>>)) } :
          m1 \in ShortLists, m2 \in ShortLists }

Bodies == ListBodies \cup TwoListBodies \cup BadBodies

\* no payload downloaded yet
NoBody == [valid |-> FALSE, enc |-> <<"none">>]

\* ------------------------------------------------------------------------
\* LegacyConverter
\* ------------------------------------------------------------------------
\* _make_request: raise_for_status and transport errors are re-raised
make_request(resp) ==
  IF IsRequestException(resp) THEN [err |-> resp, val |-> resp]
  ELSE [err |-> NoError, val |-> resp]

analyze_project(resp) == make_request(resp)

generate_documentation(resp) == make_request(resp)

get_scaffolding(resp) == make_request(resp)

\* scaffolding["scaffolding"]["final"]
final_scaffolding_url(val) ==
  IF val = "nokey" THEN [err |-> "KeyError"] ELSE [err |-> NoError]

\* import_legacy followed by import_result["project_id"]
import_legacy(resp) ==
  IF resp = "unreadable" THEN [err |-> "OSError", id |-> NoId]
  ELSE IF IsRequestException(resp) THEN [err |-> resp, id |-> NoId]
  ELSE IF resp = "nokey" THEN [err |-> "KeyError", id |-> NoId]
  ELSE [err |-> NoError, id |-> ImportedId]

\* download_and_parse_scaffolding: requests.get, raise_for_status,
\* json.loads(response.text), then len(data) for the log line
download_and_parse_scaffolding(resp, body) ==
  LET parsed == json_loads(body)
  IN IF IsRequestException(resp) THEN [err |-> resp, val |-> JNum]
     ELSE IF parsed.err # NoError THEN parsed
     ELSE IF parsed.val.t = "num" THEN [err |-> "TypeError", val |-> parsed.val]
     ELSE parsed

\* FirstList without the break: the value under the last key that holds a list
RECURSIVE LastList(_, _)
LastList(pairs, dflt) ==
  IF pairs = <<>> THEN dflt
  ELSE LastList(Tail(pairs), IF isinstance_list(Head(pairs).val) THEN Head(pairs).val ELSE dflt)

\* the value under the first key, in the mapping's order, that holds a list
RECURSIVE FirstList(_, _)
FirstList(pairs, dflt) ==
  IF pairs = <<>> THEN dflt
  ELSE IF isinstance_list(Head(pairs).val) THEN Head(pairs).val
  ELSE FirstList(Tail(pairs), dflt)

\* main(), existing-scaffolding branch: str -> json.loads, mapping -> first
\* list value, anything that is still not a list -> ValueError
coerce_existing(data) ==
  LET s1 == IF isinstance_str(data) THEN json_loads(data.v[1])
            ELSE [err |-> NoError, val |-> data]
      d1 == s1.val
      d2 == IF isinstance_list(d1) THEN d1 ELSE FirstList(d1.v, d1)
  IN IF s1.err # NoError THEN s1
     ELSE IF ~isinstance_list(d1) /\ d1.t # "obj" THEN [err |-> "AttributeError", val |-> d1]
     ELSE IF ~isinstance_list(d2) THEN [err |-> "ValueError", val |-> d2]
     ELSE [err |-> NoError, val |-> d2]

\* main(), the two other branches: only a str is converted
coerce_converted(data) ==
  IF ~isinstance_list(data) /\ isinstance_str(data) THEN json_loads(data.v[1])
  ELSE [err |-> NoError, val |-> data]

\* what "for item in scaffolding_data" yields: the items of a list, the keys
\* of a mapping, the characters of a str (none of the last two is a mapping)
Scalar == [scalar |-> TRUE]

RECURSIVE Keys(_)
Keys(pairs) == IF pairs = <<>> THEN <<>> ELSE <<Scalar>> \o Keys(Tail(pairs))

Elements(data) ==
  IF data.t = "list" THEN data.v
  ELSE IF data.t = "obj" THEN Keys(data.v)
  ELSE IF data.t = "str" THEN <<Scalar>>
  ELSE <<>>

PurposeLine(item) == "# Purpose: " \o item.description \o "\n"
ContentLine(item) == "# Expected content type: " \o item.expected_content \o "\n"

\* body of the "with open(full_path, 'w')" block
write_placeholder(f, full, item) ==
  LET o == open_w(f, full)
      w1 == write_line(o.fs, full, PurposeLine(item))
      w2 == write_line(w1, full, ContentLine(item))
  IN IF o.err # NoError THEN o
     ELSE IF "description" \notin DOMAIN item THEN [err |-> "KeyError", fs |-> o.fs]
     ELSE IF "expected_content" \notin DOMAIN item THEN [err |-> "KeyError", fs |-> w1]
     ELSE [err |-> NoError, fs |-> w2]

\* apply_item without the os.makedirs of the parent directories
apply_item_no_parents(f, output_dir, item) ==
  LET full == path_join(output_dir, item.full_path)
  IN IF "scalar" \in DOMAIN item THEN [err |-> "TypeError", fs |-> f]
     ELSE IF "full_path" \in DOMAIN item /\ item.type = "directory"
       THEN makedirs(f, full, TRUE)
     ELSE IF "full_path" \notin DOMAIN item THEN [err |-> "KeyError", fs |-> f]
     ELSE write_placeholder(f, full, item)

\* apply_item without the os.makedirs(full_path) of the directory branch
apply_item_parents_only(f, output_dir, item) ==
  LET full == path_join(output_dir, item.full_path)
      parents == makedirs(f, path_dirname(full), TRUE)
  IN IF "scalar" \in DOMAIN item THEN [err |-> "TypeError", fs |-> f]
     ELSE IF "full_path" \notin DOMAIN item THEN [err |-> "KeyError", fs |-> f]
     ELSE IF parents.err # NoError THEN parents
     ELSE IF item.type = "directory" THEN parents
     ELSE write_placeholder(parents.fs, full, item)

\* one iteration of the loop of create_scaffolding_structure
apply_item(f, output_dir, item) ==
  LET full == path_join(output_dir, item.full_path)
      parents == makedirs(f, path_dirname(full), TRUE)
  IN IF "scalar" \in DOMAIN item THEN [err |-> "TypeError", fs |-> f]
     ELSE IF "full_path" \notin DOMAIN item THEN [err |-> "KeyError", fs |-> f]
     ELSE IF parents.err # NoError THEN parents
     ELSE IF item.type = "directory" THEN makedirs(parents.fs, full, TRUE)
     ELSE write_placeholder(parents.fs, full, item)

\* ------------------------------------------------------------------------
\* State
\* ------------------------------------------------------------------------
VARIABLES
  pc,                \* position of each session in main()
  project_id,        \* main's project_id
  legacy_file_path,  \* whether a legacy_file_path was passed
  output_dir,        \* output_dir of create_scaffolding_structure
  scaffolding_data,  \* main's scaffolding_data
  idx,               \* next element of the loop of create_scaffolding_structure
  inner_try,         \* whether control is inside the try of lines 267-322
  fs,                \* the filesystem
  calls,             \* steps started, in order
  succeeded,         \* steps that returned normally, in order
  failures,          \* exceptions raised by steps, in order
  raised,            \* exception main() propagated to its caller
  body,              \* text of the last payload downloaded
  touched,           \* paths each session created, removed or wrote
  result             \* the filesystem when create_scaffolding_structure returned

vars == <<pc, project_id, legacy_file_path, output_dir, scaffolding_data, idx,
          inner_try, fs, calls, succeeded, failures, raised, body, touched, result>>

OutputDirs == {<<"scaffolding">>, <<"build">>}

BaseFS == (<<>> :> DirNode) @@ (Cwd :> DirNode)

\* what a session may find at output_dir: nothing, the tree of an earlier
\* run, or a regular file
InitialFS(root) ==
  { BaseFS,
    (Cwd \o root :> DirNode) @@ (Cwd \o root \o <<"old.txt">> :> FileNode(<<"old">>))
       @@ (Cwd \o root \o <<"src">> :> FileNode(<<"old">>)) @@ BaseFS,
    (Cwd \o root :> FileNode(<<"old">>)) @@ BaseFS }

\* create_scaffolding_structure has not returned
NoResult == [p \in {} |-> DirNode]

Upd(f, s, val) == [f EXCEPT ![s] = val]

\* a single invocation of main(): session 1 runs, no other session exists
Init ==
  /\ pc = [s \in Sessions |-> IF s = 1 THEN "main" ELSE "absent"]
  /\ \E id \in {NoId, GivenId}, leg \in BOOLEAN, root \in OutputDirs :
       /\ project_id = [s \in Sessions |-> IF s = 1 THEN id ELSE NoId]
       /\ legacy_file_path = [s \in Sessions |-> s = 1 /\ leg]
       /\ output_dir = [s \in Sessions |-> root]
       /\ fs \in InitialFS(root)
  /\ scaffolding_data = [s \in Sessions |-> JNum]
  /\ idx = [s \in Sessions |-> 0]
  /\ inner_try = [s \in Sessions |-> FALSE]
  /\ calls = [s \in Sessions |-> <<>>]
  /\ succeeded = [s \in Sessions |-> <<>>]
  /\ failures = [s \in Sessions |-> <<>>]
  /\ raised = [s \in Sessions |-> NoError]
  /\ body = [s \in Sessions |-> NoBody]
  /\ touched = [s \in Sessions |-> {}]
  /\ result = [s \in Sessions |-> NoResult]

\* ------------------------------------------------------------------------
\* Exception handling of main()
\* ------------------------------------------------------------------------
\* where an exception raised at a step goes: "except requests.RequestException"
\* of the inner try starts the analysis branch, everything else reaches
\* "except Exception", which re-raises
Handler(in_try, e) ==
  IF in_try /\ IsRequestException(e) THEN "fb_analyze" ELSE "failed"

\* what "except Exception: ... raise" hands to the caller
Reraise(e) == e

Raise(s, step, e, in_try) ==
  /\ failures' = Upd(failures, s, Append(failures[s], [step |-> step, err |-> e]))
  /\ pc' = Upd(pc, s, Handler(in_try, e))
  /\ raised' = IF Handler(in_try, e) = "failed" THEN Upd(raised, s, Reraise(e)) ELSE raised
  /\ inner_try' = Upd(inner_try, s, FALSE)

Return(s, step, next, in_try) ==
  /\ succeeded' = Upd(succeeded, s, Append(succeeded[s], step))
  /\ pc' = Upd(pc, s, next)
  /\ inner_try' = Upd(inner_try, s, in_try)
  /\ UNCHANGED <<failures, raised>>

Started(s, step) == calls' = Upd(calls, s, Append(calls[s], step))

\* a remote step that only acknowledges: next on success, handler on failure
RemoteStep(s, step, r, next, in_try) ==
  /\ Started(s, step)
  /\ IF r.err # NoError
       THEN Raise(s, step, r.err, in_try) /\ UNCHANGED succeeded
       ELSE Return(s, step, next, in_try)

\* ------------------------------------------------------------------------
\* main(): existing project, scaffolding already there
\* ------------------------------------------------------------------------
ResumeGetScaffolding(s) ==
  /\ pc[s] = "main"
  /\ project_id[s] # NoId
  /\ \E resp \in GsResponses :
       LET r == get_scaffolding(resp)
           u == final_scaffolding_url(r.val)
       IN RemoteStep(s, "get_scaffolding",
                     IF r.err # NoError THEN r ELSE u, "fast_download", TRUE)
  /\ UNCHANGED <<result, project_id, legacy_file_path, output_dir, scaffolding_data, idx,
                 fs, body, touched>>

\* download_and_parse_scaffolding and the conversion main() applies to its
\* result: the full one inside the inner try, the short one elsewhere
DownloadStep(s, next, in_try) ==
  /\ Started(s, "fetch")
  /\ \E resp \in FetchResponses, b \in Bodies :
       LET d == download_and_parse_scaffolding(resp, b)
           c == IF in_try THEN coerce_existing(d.val) ELSE coerce_converted(d.val)
       IN /\ body' = Upd(body, s, IF IsRequestException(resp) THEN body[s] ELSE b)
          /\ IF d.err # NoError
               THEN /\ Raise(s, "fetch", d.err, in_try)
                    /\ UNCHANGED <<succeeded, scaffolding_data>>
             ELSE IF c.err # NoError
               THEN /\ Raise(s, "normalize", c.err, in_try)
                    /\ succeeded' = Upd(succeeded, s, Append(succeeded[s], "fetch"))
                    /\ scaffolding_data' = Upd(scaffolding_data, s, d.val)
             ELSE /\ Return(s, "fetch", next, in_try)
                  /\ scaffolding_data' = Upd(scaffolding_data, s, c.val)
  /\ UNCHANGED <<result, project_id, legacy_file_path, output_dir, idx, fs, touched>>

ResumeDownload(s) ==
  /\ pc[s] = "fast_download"
  /\ DownloadStep(s, "mat_reset", TRUE)

\* ------------------------------------------------------------------------
\* main(): existing project, handler of the inner try
\* ------------------------------------------------------------------------
\* a step of main() that calls the service and keeps nothing of the answer
AckStep(s, at, step, r, next) ==
  /\ pc[s] = at
  /\ RemoteStep(s, step, r, next, FALSE)
  /\ UNCHANGED <<result, project_id, legacy_file_path, output_dir, scaffolding_data, idx,
                 fs, body, touched>>

GetScaffoldingStep(s, at, next) ==
  /\ pc[s] = at
  /\ \E resp \in GsResponses :
       LET r == get_scaffolding(resp)
           u == final_scaffolding_url(r.val)
       IN RemoteStep(s, "get_scaffolding", IF r.err # NoError THEN r ELSE u, next, FALSE)
  /\ UNCHANGED <<result, project_id, legacy_file_path, output_dir, scaffolding_data, idx,
                 fs, body, touched>>

FallbackAnalyze(s) ==
  \E resp \in AckResponses :
    AckStep(s, "fb_analyze", "analyze", analyze_project(resp), "fb_document")

\* FallbackDocument going on to the download without a new get_scaffolding
FallbackDocument_NoRequest(s) ==
  \E resp \in AckResponses :
    AckStep(s, "fb_document", "document", generate_documentation(resp), "fb_download")

FallbackDocument(s) ==
  \E resp \in AckResponses :
    AckStep(s, "fb_document", "document", generate_documentation(resp), "fb_get_scaffolding")

FallbackGetScaffolding(s) == GetScaffoldingStep(s, "fb_get_scaffolding", "fb_download")

FallbackDownload(s) ==
  /\ pc[s] = "fb_download"
  /\ DownloadStep(s, "mat_reset", FALSE)

\* ------------------------------------------------------------------------
\* main(): new project
\* ------------------------------------------------------------------------
\* "if not legacy_file_path": prints an error and returns
MissingLegacyFile(s) ==
  /\ pc[s] = "main"
  /\ project_id[s] = NoId
  /\ ~legacy_file_path[s]
  /\ pc' = Upd(pc, s, "returned")
  /\ UNCHANGED <<result, project_id, legacy_file_path, output_dir, scaffolding_data, idx,
                 inner_try, fs, calls, succeeded, failures, raised, body, touched>>

\* Import that does not look at project_id
Import_IgnoresId(s) ==
  /\ pc[s] = "main"
  /\ legacy_file_path[s]
  /\ \E resp \in ImportResponses :
       LET r == import_legacy(resp)
       IN /\ RemoteStep(s, "import", r, "analyze", FALSE)
          /\ project_id' = IF r.err = NoError THEN Upd(project_id, s, r.id) ELSE project_id
  /\ UNCHANGED <<result, legacy_file_path, output_dir, scaffolding_data, idx, fs, body,
                 touched>>

\* "import_result = converter.import_legacy(legacy_file_path)", reached only
\* past the "if project_id:" branch, which always returns or raises
Import(s) ==
  /\ pc[s] = "main"
  /\ project_id[s] = NoId
  /\ legacy_file_path[s]
  /\ \E resp \in ImportResponses :
       LET r == import_legacy(resp)
       IN /\ RemoteStep(s, "import", r, "analyze", FALSE)
          /\ project_id' = Upd(project_id, s, r.id)
  /\ UNCHANGED <<result, legacy_file_path, output_dir, scaffolding_data, idx, fs, body,
                 touched>>

\* Analyze going on to get_scaffolding without the documentation step
Analyze_NoDocument(s) ==
  \E resp \in AckResponses :
    AckStep(s, "analyze", "analyze", analyze_project(resp), "get_scaffolding")

Analyze(s) ==
  \E resp \in AckResponses :
    AckStep(s, "analyze", "analyze", analyze_project(resp), "document")

Document(s) ==
  \E resp \in AckResponses :
    AckStep(s, "document", "document", generate_documentation(resp), "get_scaffolding")

GetScaffolding(s) == GetScaffoldingStep(s, "get_scaffolding", "download")

Download(s) ==
  /\ pc[s] = "download"
  /\ DownloadStep(s, "mat_reset", FALSE)

\* ------------------------------------------------------------------------
\* create_scaffolding_structure
\* ------------------------------------------------------------------------
FsStep(s, r) ==
  /\ fs' = r.fs
  /\ touched' = Upd(touched, s, touched[s] \cup Changed(fs, r.fs))

\* RemoveExisting without the rmtree
RemoveExisting_NoReset(s) ==
  /\ pc[s] = "mat_reset"
  /\ Started(s, "materialize")
  /\ pc' = Upd(pc, s, "mat_mkroot")
  /\ UNCHANGED <<failures, raised, inner_try, fs, touched>>
  /\ UNCHANGED <<result, project_id, legacy_file_path, output_dir, scaffolding_data, idx,
                 succeeded, body>>

\* "if os.path.exists(output_dir): shutil.rmtree(output_dir)"
RemoveExisting(s) ==
  /\ pc[s] = "mat_reset"
  /\ Started(s, "materialize")
  /\ LET r == IF path_exists(fs, output_dir[s]) THEN rmtree(fs, output_dir[s])
              ELSE [err |-> NoError, fs |-> fs]
     IN /\ FsStep(s, r)
        /\ IF r.err # NoError
             THEN Raise(s, "materialize", r.err, inner_try[s])
             ELSE /\ pc' = Upd(pc, s, "mat_mkroot")
                  /\ UNCHANGED <<failures, raised, inner_try>>
  /\ UNCHANGED <<result, project_id, legacy_file_path, output_dir, scaffolding_data, idx,
                 succeeded, body>>

\* os.makedirs(output_dir), then the progress task sized with len()
CreateBase(s) ==
  /\ pc[s] = "mat_mkroot"
  /\ LET r == makedirs(fs, output_dir[s], FALSE)
         e == IF r.err # NoError THEN r.err
              ELSE IF scaffolding_data[s].t = "num" THEN "TypeError"
              ELSE NoError
     IN /\ FsStep(s, r)
        /\ IF e # NoError
             THEN Raise(s, "materialize", e, inner_try[s]) /\ UNCHANGED idx
             ELSE /\ pc' = Upd(pc, s, "mat_items")
                  /\ idx' = Upd(idx, s, 1)
                  /\ UNCHANGED <<failures, raised, inner_try>>
  /\ UNCHANGED <<result, project_id, legacy_file_path, output_dir, scaffolding_data,
                 calls, succeeded, body>>

\* one iteration of "for item in scaffolding_data"
ApplyItem(s) ==
  /\ pc[s] = "mat_items"
  /\ idx[s] <= Len(Elements(scaffolding_data[s]))
  /\ LET r == apply_item(fs, output_dir[s], Elements(scaffolding_data[s])[idx[s]])
     IN /\ FsStep(s, r)
        /\ IF r.err # NoError
             THEN Raise(s, "materialize", r.err, inner_try[s]) /\ UNCHANGED idx
             ELSE /\ idx' = Upd(idx, s, idx[s] + 1)
                  /\ UNCHANGED <<pc, failures, raised, inner_try>>
  /\ UNCHANGED <<result, project_id, legacy_file_path, output_dir, scaffolding_data,
                 calls, succeeded, body>>

\* the loop is exhausted: create_scaffolding_structure and main() return
Finish(s) ==
  /\ pc[s] = "mat_items"
  /\ idx[s] > Len(Elements(scaffolding_data[s]))
  /\ Return(s, "materialize", "done", FALSE)
  /\ result' = Upd(result, s, fs)
  /\ UNCHANGED <<project_id, legacy_file_path, output_dir, scaffolding_data, idx,
                 fs, calls, body, touched>>

Next ==
  \E s \in Sessions :
    \/ ResumeGetScaffolding(s)
    \/ ResumeDownload(s)
    \/ FallbackAnalyze(s)
    \/ FallbackDocument(s)
    \/ FallbackGetScaffolding(s)
    \/ FallbackDownload(s)
    \/ MissingLegacyFile(s)
    \/ Import(s)
    \/ Analyze(s)
    \/ Document(s)
    \/ GetScaffolding(s)
    \/ Download(s)
    \/ RemoveExisting(s)
    \/ CreateBase(s)
    \/ ApplyItem(s)
    \/ Finish(s)

Spec == Init /\ [][Next]_vars

\* ------------------------------------------------------------------------
\* create_scaffolding_structure run again, and run by two sessions at once
\* ------------------------------------------------------------------------
\* the steps of create_scaffolding_structure
Materialize(s) ==
  \/ RemoveExisting(s)
  \/ CreateBase(s)
  \/ ApplyItem(s)
  \/ Finish(s)

\* the orders the items of a list can arrive in
Reorderings(m) ==
  {[i \in 1..Len(m) |-> m[p[i]]] : p \in Permutations(1..Len(m))}

\* what the second run is given: the same items in some order, or one file
RerunManifests(m) ==
  Reorderings(m) \cup {<<FileItem(<<"README">>, "readme", "text")>>}

\* a new-project session that has downloaded the list m and is about to call
\* create_scaffolding_structure
AtMaterialize(roots, lists) ==
  /\ pc = [s \in Sessions |-> "mat_reset"]
  /\ project_id = [s \in Sessions |-> ImportedId]
  /\ legacy_file_path = [s \in Sessions |-> TRUE]
  /\ output_dir = roots
  /\ scaffolding_data = [s \in Sessions |-> JList(lists[s])]
  /\ body = [s \in Sessions |-> Enc(JList(lists[s]))]
  /\ idx = [s \in Sessions |-> 0]
  /\ inner_try = [s \in Sessions |-> FALSE]
  /\ calls = [s \in Sessions |-> SubSeq(<<"import", "analyze", "document", "get_scaffolding", "fetch">>, 1, 5)]
  /\ succeeded = calls
  /\ failures = [s \in Sessions |-> <<>>]
  /\ raised = [s \in Sessions |-> NoError]
  /\ touched = [s \in Sessions |-> {}]
  /\ result = [s \in Sessions |-> NoResult]

\* session 2 is run on the same output_dir once session 1 has ended
InitRerun ==
  \E root \in OutputDirs, m \in Manifests :
    \E m2 \in RerunManifests(m) :
      /\ AtMaterialize([s \in Sessions |-> root], [s \in Sessions |-> IF s = 1 THEN m ELSE m2])
      /\ fs \in InitialFS(root)

NextRerun ==
  \E s \in Sessions :
    /\ s = 2 => pc[1] \in {"done", "failed"}
    /\ Materialize(s)

SpecRerun == InitRerun /\ [][NextRerun]_vars

\* items of the lists two concurrent sessions materialize
ConcItems ==
  { DirItem(<<"src">>),
    FileItem(<<"src", "main.py">>, "entry point", "python"),
    FileItem(<<"..", "build", "x">>, "escape", "text") }

ConcManifests == SeqsUpTo(ConcItems, MaxItems)

\* two sessions in create_scaffolding_structure at the same time, each with
\* its own list, on the same or on different output directories
InitConc ==
  /\ \E r1 \in OutputDirs, r2 \in OutputDirs, m1 \in ConcManifests, m2 \in ConcManifests :
       AtMaterialize([s \in Sessions |-> IF s = 1 THEN r1 ELSE r2],
                     [s \in Sessions |-> IF s = 1 THEN m1 ELSE m2])
  /\ fs = BaseFS

NextConc == \E s \in Sessions : Materialize(s)

SpecConc == InitConc /\ [][NextConc]_vars

\* ------------------------------------------------------------------------
\* Session state of the workflow, read off the position in main()
\* ------------------------------------------------------------------------
State(s) ==
  CASE pc[s] \in {"main", "absent", "returned"} -> "New"
    [] pc[s] = "analyze" -> "Imported"
    [] pc[s] \in {"document", "fb_document"} -> "Analyzed"
    [] pc[s] \in {"get_scaffolding", "fb_get_scaffolding"} -> "Documented"
    [] pc[s] \in {"download", "fast_download", "fb_analyze", "fb_download"} -> "ScaffoldRequested"
    [] pc[s] \in {"mat_reset", "mat_mkroot", "mat_items"} -> "ScaffoldReady"
    [] pc[s] = "done" -> "Materialized"
    [] pc[s] = "failed" -> "Failed"

\* ------------------------------------------------------------------------
\* Vocabulary of the properties
\* ------------------------------------------------------------------------
Range(q) == {q[i] : i \in 1..Len(q)}

Count(q, x) == Cardinality({i \in 1..Len(q) : q[i] = x})

Ended(s) == pc[s] \in {"done", "failed", "returned"}

\* the session was started with a project_id: its first step is get_scaffolding
Resumed(s) == calls[s] # <<>> /\ calls[s][1] = "get_scaffolding"

\* the session was started with a legacy file only: its first step is import
Fresh(s) == calls[s] # <<>> /\ calls[s][1] = "import"

NotFoundSignal == [step |-> "get_scaffolding", err |-> "HTTPError404"]

\* the first get_scaffolding of a resumed session reported "not found"
FirstNotFound(s) == Resumed(s) /\ failures[s] # <<>> /\ failures[s][1] = NotFoundSignal

\* the first get_scaffolding of a resumed session succeeded
FirstFound(s) == Resumed(s) /\ succeeded[s] # <<>> /\ succeeded[s][1] = "get_scaffolding"

FallbackOrder == <<"get_scaffolding", "analyze", "document", "get_scaffolding", "fetch", "materialize">>

FreshOrder == <<"import", "analyze", "document", "get_scaffolding", "fetch", "materialize">>

\* ------------------------------------------------------------------------
\* C1
\* ------------------------------------------------------------------------
\* C1: in a session started with a project_id whose first get_scaffolding
\* succeeds, analyze and document are never called, whatever happens later.
C1_FastResumeSkipsAnalysis ==
  \A s \in Sessions :
    FirstFound(s) => "analyze" \notin Range(calls[s]) /\ "document" \notin Range(calls[s])

\* ------------------------------------------------------------------------
\* C2
\* ------------------------------------------------------------------------
\* C2 as stated: once a resumed session whose first get_scaffolding reported
\* "not found" has ended, it has issued exactly one analyze, one document and
\* one further get_scaffolding, in that order.
C2_ExactlyOneOfEach ==
  \A s \in Sessions :
    (FirstNotFound(s) /\ Ended(s)) =>
      /\ Len(calls[s]) >= 4
      /\ SubSeq(calls[s], 1, 4) = SubSeq(FallbackOrder, 1, 4)
      /\ Count(calls[s], "analyze") = 1
      /\ Count(calls[s], "document") = 1
      /\ Count(calls[s], "get_scaffolding") = 2

\* C2 amended: after a "not found" first get_scaffolding the session issues
\* analyze, document and one further get_scaffolding at most once each, in that
\* order, each only after the previous one succeeded; analyze is always issued,
\* document once analyze succeeded, get_scaffolding once document succeeded;
\* any failure after the first one ends the session without a new round.
C2_FallbackOnce ==
  \A s \in Sessions :
    FirstNotFound(s) =>
      /\ IsPrefix(calls[s], FallbackOrder)
      /\ Len(calls[s]) <= Len(succeeded[s]) + 2
      /\ (Ended(s) => Count(calls[s], "analyze") = 1)
      /\ ((Ended(s) /\ "analyze" \in Range(succeeded[s])) => Count(calls[s], "document") = 1)
      /\ ((Ended(s) /\ "document" \in Range(succeeded[s])) =>
            Count(calls[s], "get_scaffolding") = 2)
      /\ (Len(failures[s]) >= 2 => pc[s] = "failed" /\ Len(failures[s]) = 2)

\* the second get_scaffolding failed as well, and the session stopped there
C2_Witness ==
  /\ FirstNotFound(1)
  /\ pc[1] = "failed"
  /\ calls[1] = SubSeq(FallbackOrder, 1, 4)
  /\ Len(failures[1]) = 2
  /\ failures[1][2].step = "get_scaffolding"

\* ------------------------------------------------------------------------
\* C3
\* ------------------------------------------------------------------------
\* C3: on the resume path a first failure other than the "not found" outcome of
\* get_scaffolding moves the session to Failed, and neither analyze nor
\* document is called.
C3_OnlyNotFoundFallsBack ==
  \A s \in Sessions :
    (Resumed(s) /\ failures[s] # <<>> /\ failures[s][1] # NotFoundSignal) =>
      /\ State(s) = "Failed"
      /\ "analyze" \notin Range(calls[s])
      /\ "document" \notin Range(calls[s])

\* ------------------------------------------------------------------------
\* C4
\* ------------------------------------------------------------------------
\* C4: in a session started with a legacy file and no project_id the steps
\* import, analyze, document, get_scaffolding, fetch, materialize start at most
\* once and in that order, each only after the previous one succeeded; a
\* session that reaches Materialized has executed all six exactly once.
C4_FreshOrder ==
  \A s \in Sessions :
    /\ (project_id[s] = NoId /\ legacy_file_path[s]) => calls[s] \in {<<>>, <<"import">>}
    /\ Fresh(s) =>
         /\ IsPrefix(calls[s], FreshOrder)
         /\ IsPrefix(succeeded[s], calls[s])
         /\ Len(calls[s]) <= Len(succeeded[s]) + 1
         /\ (State(s) = "Materialized" => calls[s] = FreshOrder /\ succeeded[s] = FreshOrder)

C4_Witness == Fresh(1) /\ State(1) = "Materialized" /\ calls[1] = FreshOrder

\* ------------------------------------------------------------------------
\* C5
\* ------------------------------------------------------------------------
\* C5: a session started with neither a project_id nor a legacy file ends in
\* Failed with an error raised to the caller, having made no remote call and no
\* filesystem change.
C5_ConfigurationError ==
  \A s \in Sessions :
    (project_id[s] = NoId /\ ~legacy_file_path[s] /\ Ended(s)) =>
      /\ State(s) = "Failed"
      /\ raised[s] # NoError
      /\ calls[s] = <<>>
      /\ touched[s] = {}

\* ------------------------------------------------------------------------
\* C6
\* ------------------------------------------------------------------------
\* C6: the first failure of a step that is not the "not found" signal of the
\* resume path (and any failure after that signal) leaves the session Failed
\* with that failure's exception raised to the caller, and no step is started
\* after it.
FatalFailure(s) ==
  IF FirstNotFound(s)
    THEN IF Len(failures[s]) >= 2 THEN 2 ELSE 0
    ELSE IF failures[s] # <<>> THEN 1 ELSE 0

C6_FailureIsFinal ==
  \A s \in Sessions :
    FatalFailure(s) > 0 =>
      /\ State(s) = "Failed"
      /\ raised[s] = failures[s][FatalFailure(s)].err
      /\ Len(failures[s]) = FatalFailure(s)
      /\ failures[s][FatalFailure(s)].step \in
           {calls[s][Len(calls[s])], "normalize"}

\* ------------------------------------------------------------------------
\* C7
\* ------------------------------------------------------------------------
ForwardEdges ==
  { <<"New", "Imported">>, <<"Imported", "Analyzed">>, <<"Analyzed", "Documented">>,
    <<"Documented", "ScaffoldRequested">>, <<"New", "ScaffoldRequested">>,
    <<"ScaffoldRequested", "ScaffoldReady">>, <<"ScaffoldReady", "Materialized">> }

Terminal == {"Materialized", "Failed"}

\* C7: the session state only moves along the forward edges or to Failed,
\* except for the fallback edge ScaffoldRequested -> Analyzed, taken only after
\* the "not found" signal and at most once; nothing leaves Materialized or
\* Failed.
C7_ForwardOnly ==
  [][\A s \in Sessions :
       \/ State(s)' = State(s)
       \/ <<State(s), State(s)'>> \in ForwardEdges
       \/ State(s) \notin Terminal /\ State(s)' = "Failed"
       \/ /\ State(s) = "ScaffoldRequested"
          /\ State(s)' = "Analyzed"
          /\ failures[s] = <<NotFoundSignal>>
          /\ "analyze" \notin Range(calls[s])]_vars

\* ------------------------------------------------------------------------
\* C8
\* ------------------------------------------------------------------------
HoldsList(val) == val.t = "obj" /\ \E i \in 1..Len(val.v) : val.v[i].val.t = "list"

\* a list of items can be recovered from the payload: it is a list, a mapping
\* with a list value, or a string encoding one of these
Recoverable(text) ==
  /\ text.valid
  /\ LET val == text.enc[1]
     IN \/ val.t = "list"
        \/ HoldsList(val)
        \/ /\ val.t = "str"
           /\ val.v[1].valid
           /\ (val.v[1].enc[1].t = "list" \/ HoldsList(val.v[1].enc[1]))

\* C8: when the downloaded payload holds no recoverable list of items, the
\* session does not complete and has changed nothing on the filesystem.
C8_BadPayloadNoMutation ==
  \A s \in Sessions :
    (body[s] # NoBody /\ ~Recoverable(body[s])) =>
      /\ touched[s] = {}
      /\ State(s) # "Materialized"
      /\ (Ended(s) => State(s) = "Failed")

\* ------------------------------------------------------------------------
\* C9
\* ------------------------------------------------------------------------
HasEscape(data) ==
  data.t = "list" /\ \E i \in 1..Len(data.v) : ".." \in Range(data.v[i].full_path)

\* C9: a manifest with an item whose full_path has a ".." segment is rejected
\* before any filesystem change, and materialization never changes a path
\* outside output_dir.
C9_EscapeRejected ==
  \A s \in Sessions :
    /\ ("materialize" \in Range(calls[s]) /\ HasEscape(scaffolding_data[s])) =>
         touched[s] = {}
    /\ \A p \in touched[s] : IsPrefix(Cwd \o output_dir[s], p)

\* ------------------------------------------------------------------------
\* C10
\* ------------------------------------------------------------------------
\* a canonical manifest: Directory and File items, files with both texts,
\* unique relative paths without "..", no File path leading another path
ValidManifest(data) ==
  /\ data.t = "list"
  /\ \A i \in 1..Len(data.v) :
       LET it == data.v[i]
       IN /\ it.type \in {"directory", "file"}
          /\ it.type = "file" => {"description", "expected_content"} \subseteq DOMAIN it
          /\ it.full_path # <<>>
          /\ ".." \notin Range(it.full_path)
          /\ "/" \notin Range(it.full_path)
          /\ \A j \in 1..Len(data.v) :
               j # i =>
                 /\ data.v[j].full_path # it.full_path
                 /\ it.type = "file" => ~IsPrefix(it.full_path, data.v[j].full_path)

\* C10: after materialization of a valid manifest every item exists at
\* output_dir/full_path with its kind: a directory for a Directory item, a
\* regular file holding the two placeholder lines for a File item.
C10_ItemsExist ==
  \A s \in Sessions :
    (State(s) = "Materialized" /\ ValidManifest(scaffolding_data[s])) =>
      \A i \in 1..Len(scaffolding_data[s].v) :
        LET it == scaffolding_data[s].v[i]
            p == Cwd \o output_dir[s] \o it.full_path
        IN /\ p \in DOMAIN fs
           /\ IF it.type = "directory"
                THEN fs[p].kind = "dir"
                ELSE /\ fs[p].kind = "file"
                     /\ fs[p].content =
                          << "# Purpose: " \o it.description \o "\n",
                             "# Expected content type: " \o it.expected_content \o "\n" >>

\* a file below a directory of the manifest, both materialized
C10_Witness ==
  /\ State(1) = "Materialized"
  /\ ValidManifest(scaffolding_data[1])
  /\ \E i, j \in 1..Len(scaffolding_data[1].v) :
       /\ scaffolding_data[1].v[i].type = "directory"
       /\ scaffolding_data[1].v[j].type = "file"
       /\ Len(scaffolding_data[1].v[j].full_path) = 2

\* ------------------------------------------------------------------------
\* C11
\* ------------------------------------------------------------------------
\* C11: materializing a valid manifest a second time, right after a first
\* materialization of it completed on the same output_dir, completes too and
\* leaves the same tree and file contents as the first.
C11_Idempotent ==
  ( /\ scaffolding_data[2] = scaffolding_data[1]
    /\ ValidManifest(scaffolding_data[1])
    /\ pc[1] = "done"
    /\ pc[2] \in {"done", "failed"} ) =>
      /\ pc[2] = "done"
      /\ result[2] = result[1]

\* both runs completed, the first one on an output_dir that held an old tree
C11_Witness ==
  /\ scaffolding_data[2] = scaffolding_data[1]
  /\ ValidManifest(scaffolding_data[1])
  /\ Len(scaffolding_data[1].v) >= 1
  /\ pc[1] = "done"
  /\ pc[2] = "done"
  /\ Cwd \o output_dir[1] \o <<"old.txt">> \in touched[1]

\* ------------------------------------------------------------------------
\* C12
\* ------------------------------------------------------------------------
\* the payload is a list, a string encoding a list, or a mapping with a list
CarriesList(text) ==
  /\ text.valid
  /\ LET val == text.enc[1]
     IN \/ val.t = "list"
        \/ HoldsList(val)
        \/ val.t = "str" /\ val.v[1].valid /\ val.v[1].enc[1].t = "list"

\* the list such a payload carries
CarriedList(text) ==
  LET val == text.enc[1]
  IN IF val.t = "list" THEN val
     ELSE IF val.t = "str" THEN val.v[1].enc[1]
     ELSE val.v[CHOOSE i \in 1..Len(val.v) :
                  /\ val.v[i].val.t = "list"
                  /\ \A j \in 1..(i - 1) : val.v[j].val.t # "list"].val

\* C12: whichever of the three shapes the payload arrived in, and on whichever
\* path, the materializer is handed the list of items the payload carries.
C12_SameManifest ==
  \A s \in Sessions :
    ("materialize" \in Range(calls[s]) /\ body[s] # NoBody /\ CarriesList(body[s])) =>
      scaffolding_data[s] = CarriedList(body[s])

\* ------------------------------------------------------------------------
\* C13
\* ------------------------------------------------------------------------
\* C13: when the list of items obtained from the payload is empty, the
\* materialization is not started and the session does not reach Materialized.
C13_EmptyManifestFails ==
  \A s \in Sessions :
    scaffolding_data[s] = JList(<<>>) =>
      /\ "materialize" \notin Range(calls[s])
      /\ State(s) # "Materialized"
      /\ touched[s] = {}

\* ------------------------------------------------------------------------
\* C14
\* ------------------------------------------------------------------------
\* what a filesystem holds at and below a directory
Under(f, top) == {[path |-> p, node |-> f[p]] : p \in {q \in DOMAIN f : IsPrefix(top, q)}}

\* the tree a valid manifest produces at output_dir when materialized alone:
\* output_dir, every item with its kind, and the directories leading to it
OwnTree(s) ==
  LET top == Cwd \o output_dir[s]
      m == scaffolding_data[s].v
      node(it) == IF it.type = "directory" THEN DirNode
                  ELSE FileNode(<< "# Purpose: " \o it.description \o "\n",
                                   "# Expected content type: " \o it.expected_content \o "\n" >>)
  IN {[path |-> top, node |-> DirNode]}
       \cup {[path |-> top \o m[i].full_path, node |-> node(m[i])] : i \in 1..Len(m)}
       \cup UNION { {[path |-> top \o SubSeq(m[i].full_path, 1, k), node |-> DirNode] :
                       k \in 1..(Len(m[i].full_path) - 1)} : i \in 1..Len(m) }

\* C14: when two sessions materialize concurrently on different output
\* directories, then under every interleaving, once both have ended, each
\* output directory holds exactly the tree of its own manifest.
C14_NoInterference ==
  (output_dir[1] # output_dir[2] /\ \A s \in Sessions : pc[s] \in {"done", "failed"}) =>
    \A s \in Sessions :
      ValidManifest(scaffolding_data[s]) =>
        /\ pc[s] = "done"
        /\ Under(fs, Cwd \o output_dir[s]) = OwnTree(s)

\* ------------------------------------------------------------------------
\* C15
\* ------------------------------------------------------------------------
ListKeys(val) == {i \in 1..Len(val.v) : val.v[i].val.t = "list"}

\* the payload is a mapping in which several keys hold a list
SeveralLists(text) ==
  text.valid /\ text.enc[1].t = "obj" /\ Cardinality(ListKeys(text.enc[1])) >= 2

\* the session converted the payload in the existing-scaffolding branch
ConvertedExisting(s) ==
  /\ Len(succeeded[s]) >= 2
  /\ SubSeq(calls[s], 1, 2) = <<"get_scaffolding", "fetch">>
  /\ SubSeq(succeeded[s], 1, 2) = <<"get_scaffolding", "fetch">>

AtIncompleteFile(s) ==
  /\ scaffolding_data[s].t = "list"
  /\ idx[s] \in 1..Len(scaffolding_data[s].v)
  /\ LET it == scaffolding_data[s].v[idx[s]]
     IN /\ it.type = "file"
        /\ ~({"description", "expected_content"} \subseteq DOMAIN it)

\* C16: a File item that lacks description or expected_content does not abort
\* the conversion: the loop does not fail at such an item for the missing field.
C16_MissingTextTolerated ==
  \A s \in Sessions :
    (AtIncompleteFile(s) /\ pc[s] = "failed") =>
      failures[s][Len(failures[s])] # [step |-> "materialize", err |-> "KeyError"]

\* ------------------------------------------------------------------------
\* C17
\* ------------------------------------------------------------------------
\* a path with its ".." segments folded
RECURSIVE Folded(_, _)
Folded(done, rest) ==
  IF rest = <<>> THEN done
  ELSE IF Head(rest) = ".." THEN Folded(Parent(done), Tail(rest))
  ELSE Folded(Append(done, Head(rest)), Tail(rest))

\* the paths the items of a session's list and their parent directories name
Produced(s) ==
  LET m == scaffolding_data[s].v
  IN {Cwd \o output_dir[s]}
       \cup UNION { {Folded(Cwd \o output_dir[s], SubSeq(m[i].full_path, 1, k)) :
                       k \in 1..Len(m[i].full_path)} : i \in 1..Len(m) }

\* C17: output_dir and everything below it is gone before the base directory
\* is created and any item applied, and when a materialization of a list
\* completes, output_dir holds only entries its items and their parent
\* directories produce: nothing of an earlier tree or of an earlier failed
\* run survives.
C17_ResetBeforeApply ==
  \A s \in Sessions :
    /\ pc[s] = "mat_mkroot" => Under(fs, Cwd \o output_dir[s]) = {}
    /\ (pc[s] = "done" /\ scaffolding_data[s].t = "list") =>
         \A e \in Under(result[s], Cwd \o output_dir[s]) : e.path \in Produced(s)

\* the first run failed and left an entry in output_dir; the second run
\* completed and the entry is gone
C17_Witness ==
  /\ pc[1] = "failed"
  /\ pc[2] = "done"
  /\ \E p \in touched[1] :
       /\ IsPrefix(Cwd \o output_dir[2], p)
       /\ p # Cwd \o output_dir[2]
       /\ p \notin Produced(2)
       /\ p \notin DOMAIN result[2]
       /\ p \notin DOMAIN fs

\* ------------------------------------------------------------------------
\* C18
\* ------------------------------------------------------------------------
\* b holds the items of a in some order
IsReordering(a, b) ==
  /\ a.t = "list"
  /\ b.t = "list"
  /\ Len(a.v) = Len(b.v)
  /\ \E p \in Permutations(1..Len(a.v)) : \A i \in 1..Len(a.v) : b.v[i] = a.v[p[i]]

\* a File item of the list for which no Directory item names its parent
\* before it
OrphanFile(data) ==
  \E i \in 1..Len(data.v) :
    /\ data.v[i].type = "file"
    /\ Len(data.v[i].full_path) > 1
    /\ \A j \in 1..(i - 1) :
         data.v[j].full_path # path_dirname(data.v[i].full_path)

\* C18: for a valid manifest the tree does not depend on the order of the
\* items: when a run of the manifest completes, a run of any reordering of it
\* on the same output_dir completes too and returns the same directories,
\* files and file contents.
C18_OrderIndependent ==
  (/\ ValidManifest(scaffolding_data[1])
   /\ IsReordering(scaffolding_data[1], scaffolding_data[2])
   /\ pc[1] = "done"
   /\ pc[2] \in {"done", "failed"}) =>
    /\ pc[2] = "done"
    /\ DOMAIN result[2] = DOMAIN result[1]
    /\ \A p \in DOMAIN result[1] : result[2][p] = result[1][p]

\* both orders of a manifest ran, one of them with the file before the
\* directory that holds it
C18_Witness ==
  /\ pc[1] = "done"
  /\ pc[2] = "done"
  /\ ValidManifest(scaffolding_data[1])
  /\ IsReordering(scaffolding_data[1], scaffolding_data[2])
  /\ scaffolding_data[2] # scaffolding_data[1]
  /\ OrphanFile(scaffolding_data[2])
  /\ ~OrphanFile(scaffolding_data[1])

\* ------------------------------------------------------------------------
\* C19
\* ------------------------------------------------------------------------
\* C19: a session started with a project_id never calls import (the only step
\* that opens the legacy file), on the fast path, on the analysis path and on
\* every failure path, also when a legacy file path was passed as well.
C19_NoImportWithId ==
  \A s \in Sessions :
    project_id[s] = GivenId => "import" \notin Range(calls[s])

\* a session given both a project_id and a legacy file path went through the
\* analysis branch to the end
C19_Witness ==
  /\ project_id[1] = GivenId
  /\ legacy_file_path[1]
  /\ pc[1] = "done"
  /\ FirstNotFound(1)
  /\ "analyze" \in Range(succeeded[1])

\* ------------------------------------------------------------------------
\* C20
\* ------------------------------------------------------------------------
\* create_scaffolding_structure was entered by the session
MaterializeStarted(s) == "materialize" \in Range(calls[s])

\* C20: create_scaffolding_structure (with its removal of output_dir) starts
\* only after a get_scaffolding and the download that followed it succeeded in
\* the same session and the download left a list of items in scaffolding_data;
\* and no path has been touched while the session is in New, Imported,
\* Analyzed, Documented or ScaffoldRequested.
C20_ManifestBeforeMaterialize ==
  \A s \in Sessions :
    /\ MaterializeStarted(s) =>
         /\ "get_scaffolding" \in Range(succeeded[s])
         /\ "fetch" \in Range(succeeded[s])
         /\ scaffolding_data[s].t = "list"
    /\ touched[s] # {} => State(s) \in {"ScaffoldReady", "Materialized", "Failed"}

====
